---- MODULE Spec2Model ----
(***************************************************************************)
(* Model of reddit_browser.py: the process start-up (__main__), one scan   *)
(* cycle (run_reddit_agent) with its ledger, proxy rotation and response   *)
(* generation, and process crash / restart over the durable ledger file.   *)
(* Texts (titles, bodies, keywords, ids, responses) are sequences of       *)
(* one-character strings.                                                  *)
(***************************************************************************)
EXTENDS Integers, Sequences, FiniteSets, TLC

\* ---------------------------------------------------------------- bounds
\* number of entries of the subreddits list handed to run_reddit_agent
NumSubreddits == 2
\* number of submissions one listing subreddit.new(limit=...) may yield
MaxNew == 2
\* number of process lifetimes (first start plus restarts)
MaxRuns == 2
\* number of ids handed to the ledger when it is exercised on its own
MaxRecords == 3

\* ---------------------------------------------------------------- values
\* Python's None where a text is expected, and a file that does not exist
\* where the lines of a file are expected
None == <<"None">>
NoFile == << <<"NoFile">> >>
\* a file that exists and cannot be read
Unreadable == << <<"Unreadable">> >>
\* proxy_cycle = None: itertools.cycle is only ever built over a non-empty
\* list, so an empty item list stands for the missing iterator
NoCycle == [items |-> <<>>, pos |-> 0]
\* no submission bound
NoSubmission == [id |-> None, title |-> None, selftext |-> None]

\* characters of the modelled texts; "A" is the only cased letter with an
\* upper-case form, " " is whitespace
LowerChar(c) == IF c = "A" THEN "a" ELSE c

\* str.lower()
Lower(s) == [i \in DOMAIN s |-> LowerChar(s[i])]

\* Python's `k in s` for strings
IsSubstring(k, s) ==
    \E i \in 0..(Len(s) - Len(k)) : SubSeq(s, i + 1, i + Len(k)) = k

\* str.strip()
RECURSIVE LStrip(_)
LStrip(s) == IF s # <<>> /\ Head(s) = " " THEN LStrip(Tail(s)) ELSE s

RECURSIVE RStrip(_)
RStrip(s) ==
    IF s # <<>> /\ s[Len(s)] = " " THEN RStrip(SubSeq(s, 1, Len(s) - 1)) ELSE s

Strip(s) == RStrip(LStrip(s))

\* the elements of a sequence
Range(s) == {s[i] : i \in DOMAIN s}

\* ---------------------------------------------------------------- inputs
\* submission ids
Ids == {<<"p">>, <<"q">>}
\* title and body of a submission: a keyword in the title (in upper case),
\* a keyword in the body, no keyword at all
Contents == { <<<<"A", "b">>, <<>>>>, <<<<"b">>, <<"a", "b">>>>, <<<<"b">>, <<>>>> }
Posts == { [id |-> i, title |-> c[1], selftext |-> c[2]] : i \in Ids, c \in Contents }

\* keyword lists handed to run_reddit_agent
KeywordLists == { << <<"a", "b">> >>, << <<"c">>, <<"A">> >> }

\* contents of proxies.txt, one line per element
P1 == <<"1">>
P2 == <<"2">>
ProxyFiles == { NoFile, << <<"#", "2">>, P1 >>,
                << P1, <<" ">>, <<" ", "2">> >> }

\* contents of replied_posts.txt before the first start
LedgerFiles == { NoFile, << <<"p">> >> }

\* contents of response_phrases.txt
Hi == <<"H", "i", "!">>
PhraseFiles == { NoFile, <<Hi, <<" ">> >> }

\* values of the environment variable GEMINI_API_KEY
Key == <<"k", "e", "y">>
ApiKeys == { None, Key }

\* what the external collaborators may hand back
WebTexts == { None, <<>>, <<"w", "e", "b">> }
LlmTexts == { None, <<>>, <<"l", "l", "m">> }

\* ------------------------------------------------------- program constants
\* snippet_length=200, the default of generate_agent_response
DefaultSnippetLength == 200
\* web_text[:1000], the context handed to the LLM
LlmContextLength == 1000
\* external_url_for_agent_response and LLM_PROMPT_PREFIX of __main__; the
\* fixed fragments of format strings are single elements of a text
ExternalUrl == <<"https://playhouse-ai.world/">>
LlmPromptPrefix == <<"You are a friendly Reddit bot ...">>
UseLlmForResponses == TRUE
HelloThere == <<"Hello there!">>

\* ------------------------------------------------------- pure functions
\* truth value of a text-or-None in an `if`: None and "" are false
Truthy(x) == x # None /\ x # <<>>

Min(a, b) == IF a < b THEN a ELSE b

\* s[:n + 1], one character too many
Slice_one_more(s, n) == SubSeq(s, 1, Min(n + 1, Len(s)))

\* Python's s[:n]
Slice(s, n) == SubSeq(s, 1, Min(n, Len(s)))

\* [line.strip() for line in f if line.strip()], the line filter shared by
\* the loaders
StrippedLines(lines) ==
    LET nonblank == SelectSeq(lines, LAMBDA l : Strip(l) # <<>>)
    IN  [i \in DOMAIN nonblank |-> Strip(nonblank[i])]

\* load_response_phrases: a missing or unreadable file gives []
load_response_phrases(file) ==
    IF file = NoFile \/ file = Unreadable THEN <<>> ELSE StrippedLines(file)

\* load_proxies: lines starting with '#' are comments
load_proxies(file) ==
    IF file = NoFile \/ file = Unreadable THEN <<>>
    ELSE SelectSeq(StrippedLines(file), LAMBDA l : Head(l) # "#")

\* itertools.cycle(available_proxies): the saved items and the position of
\* the next one
itertools_cycle(items) == [items |-> items, pos |-> 1]

\* get_next_proxy over a plain iterator instead of itertools.cycle: the
\* list is handed out once and then nothing
get_next_proxy_once(cycle) ==
    IF cycle # NoCycle
    THEN <<IF cycle.pos <= Len(cycle.items) THEN cycle.items[cycle.pos]
           ELSE None,
           [cycle EXCEPT !.pos = cycle.pos + 1]>>
    ELSE <<None, cycle>>

\* get_next_proxy that never advances
get_next_proxy_stuck(cycle) ==
    IF cycle # NoCycle THEN <<cycle.items[cycle.pos], cycle>>
    ELSE <<None, cycle>>

\* get_next_proxy: <<returned value, proxy_cycle afterwards>>
get_next_proxy(cycle) ==
    IF cycle # NoCycle
    THEN <<cycle.items[cycle.pos],
           [cycle EXCEPT !.pos = (cycle.pos % Len(cycle.items)) + 1]>>
    ELSE <<None, cycle>>

\* load_replied_posts without line.strip(): every id keeps its newline
load_replied_posts_unstripped(file, read_error) ==
    IF file = NoFile \/ read_error THEN {}
    ELSE {l \o <<"\n">> : l \in Range(file)}

\* load_replied_posts that hands back what the file holds although reading
\* it raised
load_replied_posts_ignoring_error(file, read_error) ==
    IF file = NoFile THEN {} ELSE Range(StrippedLines(file))

\* load_replied_posts: read_error is any exception while reading
load_replied_posts(file, read_error) ==
    IF file = NoFile \/ read_error THEN {}
    ELSE Range(StrippedLines(file))

\* save_replied_post opening the file with 'w': the earlier lines are gone
save_replied_post_truncating(file, submission_id, write_error) ==
    IF write_error THEN file ELSE <<submission_id>>

\* save_replied_post writing the id without the '\n': the id runs into the
\* line written before it
save_replied_post_no_newline(file, submission_id, write_error) ==
    IF write_error THEN file
    ELSE IF file = NoFile \/ file = <<>> THEN <<submission_id>>
    ELSE [file EXCEPT ![Len(file)] = @ \o submission_id]

\* save_replied_post that leaves out an id the file already holds
save_replied_post_unique(file, submission_id, write_error) ==
    IF write_error THEN file
    ELSE IF file = NoFile THEN <<submission_id>>
    ELSE IF \E i \in DOMAIN file : file[i] = submission_id THEN file
    ELSE Append(file, submission_id)

\* save_replied_post that opens and closes the file and writes nothing
save_replied_post_dropping(file, submission_id, write_error) == file

\* save_replied_post: the file afterwards; a failed open or write leaves it
\* as it was
save_replied_post(file, submission_id, write_error) ==
    IF write_error THEN file
    ELSE IF file = NoFile THEN <<submission_id>>
    ELSE Append(file, submission_id)

\* get_random_response without the default: nothing is returned for an
\* empty list
get_random_response_no_default(phrases, draw) ==
    IF phrases # <<>> THEN phrases[draw] ELSE None

\* get_random_response that returns the default whatever the list holds
get_random_response_default_always(phrases, draw) == HelloThere

\* get_random_response: draw is the index random.choice picks
get_random_response(phrases, draw) ==
    IF phrases # <<>> THEN phrases[draw] ELSE HelloThere

\* the draws random.choice can make
Draws(phrases) == IF phrases # <<>> THEN DOMAIN phrases ELSE {1}

\* generate_llm_response without the test of GEMINI_API_KEY
generate_llm_response_no_key_check(prompt, api_key, completion) == completion

\* generate_llm_response: api_key is GEMINI_API_KEY, completion is what
\* model.generate_content(prompt).text gives, None when the call raises
generate_llm_response(prompt, api_key, completion) ==
    IF ~Truthy(api_key) THEN None ELSE completion

\* generate_agent_response whose template branch composes the snippet
\* without testing web_text, a failed fetch counting as an empty text
generate_agent_response_unchecked_fetch(response_phrases, url, snippet_length, use_llm, llm_prompt_prefix, api_key, draw, web_text, completion) ==
    IF use_llm
    THEN LET llm_input_text ==
                 IF Truthy(url) /\ Truthy(web_text)
                 THEN llm_prompt_prefix
                      \o <<"\n\nHere is some context from a webpage: ">>
                      \o Strip(Slice(web_text, LlmContextLength))
                      \o <<"...\n\n">>
                 ELSE llm_prompt_prefix
             llm_response ==
                 generate_llm_response(llm_input_text, api_key, completion)
         IN  IF llm_input_text # <<>> /\ Truthy(llm_response)
             THEN llm_response
             ELSE get_random_response(response_phrases, draw)
    ELSE LET base_response == get_random_response(response_phrases, draw)
             text == IF web_text = None THEN <<>> ELSE web_text
             snippet == IF Len(text) > snippet_length
                        THEN Strip(Slice(text, snippet_length)) \o <<"...">>
                        ELSE Strip(text)
         IN  IF Truthy(url)
             THEN base_response
                  \o <<"\n\nHere's something I found: \"">>
                  \o snippet \o <<"\"\n\n(Source: ">> \o url \o <<")">>
             ELSE base_response

\* generate_agent_response: web_text is what get_web_content returns (None
\* on any failure)
generate_agent_response(response_phrases, url, snippet_length, use_llm, llm_prompt_prefix, api_key, draw, web_text, completion) ==
    IF use_llm
    THEN LET llm_input_text ==
                 IF Truthy(url) /\ Truthy(web_text)
                 THEN llm_prompt_prefix
                      \o <<"\n\nHere is some context from a webpage: ">>
                      \o Strip(Slice(web_text, LlmContextLength))
                      \o <<"...\n\n">>
                 ELSE llm_prompt_prefix
             llm_response ==
                 generate_llm_response(llm_input_text, api_key, completion)
         IN  IF llm_input_text # <<>>
             THEN IF Truthy(llm_response)
                  THEN llm_response
                  ELSE get_random_response(response_phrases, draw)
             ELSE get_random_response(response_phrases, draw)
    ELSE LET base_response == get_random_response(response_phrases, draw)
         IN  IF Truthy(url)
             THEN IF Truthy(web_text)
                  THEN LET snippet ==
                               IF Len(web_text) > snippet_length
                               THEN Strip(Slice(web_text, snippet_length))
                                    \o <<"...">>
                               ELSE Strip(web_text)
                       IN  base_response
                           \o <<"\n\nHere's something I found: \"">>
                           \o snippet \o <<"\"\n\n(Source: ">> \o url \o <<")">>
                  ELSE base_response
             ELSE base_response

\* the relevance test of run_reddit_agent: title and body are lower-cased,
\* the keywords are used as given
is_relevant(title, selftext, kws) ==
    LET t == Lower(title)
        b == Lower(selftext)
    IN  \E i \in DOMAIN kws : IsSubstring(kws[i], t) \/ IsSubstring(kws[i], b)

\* ------------------------------------------------------------------ state
VARIABLES
    pc,                 \* position of the process in __main__ / run_reddit_agent
    run,                \* number of the process lifetime
    \* the environment of the process
    proxies_txt,        \* the file proxies.txt
    response_phrases_txt, \* the file response_phrases.txt
    environ_key,        \* the environment variable GEMINI_API_KEY
    replied_posts_txt,  \* the durable ledger file replied_posts.txt
    keywords,           \* the keyword list handed to run_reddit_agent
    \* the memory of the process
    GEMINI_API_KEY,
    available_proxies,
    proxy_cycle,
    reddit_instance,
    session_proxy,      \* proxy of the session bound to the Reddit client
    response_list,
    replied_posts_set,
    current_proxy,
    sub_idx,            \* index of subreddit_name in subreddits
    fetched,            \* submissions the current listing has yielded
    submission,
    agent_response,
    \* observations of the run
    next_ret,           \* values get_next_proxy returned, in call order
    scanned,            \* subreddits browsed in this cycle, in order
    forum_errors,       \* times the per-subreddit handler ran in this cycle
    reply_raised,       \* calls of submission.reply that raised, this cycle
    reply_ok,           \* calls of submission.reply that returned, per id
    cooldowns,          \* time.sleep(600) taken in this cycle
    log,                \* tag of the line the last step printed about the
                        \* submission, "" when it printed none
    save_failed,        \* ids whose ledger append failed in this run
    \* observations over all runs
    io_ok,              \* no ledger read or write has failed so far
    gap_crashed,        \* ids of replies that returned and whose record was
                        \* cut off by a crash
    \* the functions called on their own, outside a run of the script
    recorded,           \* ids handed to the ledger so far, in call order
    call                \* arguments and outcomes of the last call of
                        \* generate_agent_response, NoCall before it

environment == <<proxies_txt, response_phrases_txt, environ_key, keywords>>
process == <<GEMINI_API_KEY, available_proxies, proxy_cycle, reddit_instance,
             session_proxy, response_list, replied_posts_set>>
cycle == <<current_proxy, sub_idx, fetched, submission, agent_response>>
observed == <<next_ret, scanned, forum_errors, reply_raised, reply_ok,
              cooldowns, save_failed>>
\* log is written by every step and is in none of the groups above
history == <<io_ok, gap_crashed>>
direct == <<recorded, call>>
vars == <<pc, run, environment, replied_posts_txt, process, cycle, observed,
          log, history, direct>>

Zero == [i \in Ids |-> 0]

\* no call of generate_agent_response yet
NoCall == [use_llm |-> FALSE]

\* the memory of a process before its first statement
FreshMemory ==
    /\ GEMINI_API_KEY = None
    /\ available_proxies = <<>>
    /\ proxy_cycle = NoCycle
    /\ reddit_instance = "None"
    /\ session_proxy = None
    /\ response_list = <<>>
    /\ replied_posts_set = {}
    /\ current_proxy = None
    /\ sub_idx = 0
    /\ fetched = 0
    /\ submission = NoSubmission
    /\ agent_response = None
    /\ next_ret = <<>>
    /\ scanned = <<>>
    /\ forum_errors = 0
    /\ reply_raised = 0
    /\ reply_ok = Zero
    /\ cooldowns = 0
    /\ save_failed = {}
    /\ log = ""

\* a process that has just been started
FreshProcess ==
    /\ pc = "import"
    /\ FreshMemory

\* nothing is called on its own during a run of the script
NoDirectCalls ==
    /\ recorded = <<>>
    /\ call = NoCall

Init ==
    /\ run = 1
    /\ proxies_txt \in ProxyFiles
    /\ response_phrases_txt \in PhraseFiles
    /\ environ_key \in ApiKeys
    /\ replied_posts_txt \in LedgerFiles
    /\ keywords \in KeywordLists
    /\ FreshProcess
    /\ io_ok = TRUE
    /\ gap_crashed = {}
    /\ NoDirectCalls

\* ---------------------------------------------------------------- __main__
\* module import: GEMINI_API_KEY = os.getenv(...), proxy_cycle = None
ImportModule ==
    /\ pc = "import"
    /\ log' = ""
    /\ GEMINI_API_KEY' = environ_key
    /\ proxy_cycle' = NoCycle
    /\ pc' = "load_proxies"
    /\ UNCHANGED <<direct, run, environment, replied_posts_txt, available_proxies,
                   reddit_instance, session_proxy, response_list,
                   replied_posts_set, cycle, observed, history>>

\* available_proxies = load_proxies(proxies_file); the cycling iterator is
\* built when the list is not empty
LoadProxies ==
    /\ pc = "load_proxies"
    /\ log' = ""
    /\ available_proxies' = load_proxies(proxies_txt)
    /\ proxy_cycle' = IF available_proxies' # <<>>
                      THEN itertools_cycle(available_proxies')
                      ELSE proxy_cycle
    /\ pc' = "init_reddit"
    /\ UNCHANGED <<direct, run, environment, replied_posts_txt, GEMINI_API_KEY,
                   reddit_instance, session_proxy, response_list,
                   replied_posts_set, cycle, observed, history>>

\* reddit_instance = initialize_reddit(): the client or None
InitializeReddit ==
    /\ pc = "init_reddit"
    /\ log' = ""
    /\ \E r \in {"reddit", "None"} : reddit_instance' = r
    /\ pc' = "configure_proxy"
    /\ UNCHANGED <<direct, run, environment, replied_posts_txt, GEMINI_API_KEY,
                   available_proxies, proxy_cycle, session_proxy,
                   response_list, replied_posts_set, cycle, observed, history>>

\* the Reddit client's session is bound to the first proxy; without a
\* client the process prints the failure and ends
ConfigureRedditProxy ==
    /\ pc = "configure_proxy"
    /\ log' = ""
    /\ IF reddit_instance # "None" /\ available_proxies # <<>>
       THEN LET r == get_next_proxy(proxy_cycle)
                first_proxy == r[1]
            IN  /\ proxy_cycle' = r[2]
                /\ next_ret' = Append(next_ret, first_proxy)
                /\ session_proxy' = IF Truthy(first_proxy) THEN first_proxy
                                    ELSE session_proxy
       ELSE UNCHANGED <<proxy_cycle, next_ret, session_proxy>>
    /\ pc' = IF reddit_instance # "None" THEN "load_phrases" ELSE "exit"
    /\ UNCHANGED <<direct, run, environment, replied_posts_txt, GEMINI_API_KEY,
                   available_proxies, reddit_instance, response_list,
                   replied_posts_set, cycle, scanned, forum_errors,
                   reply_raised, reply_ok, cooldowns, save_failed, history>>

\* response_list = load_response_phrases(response_file)
LoadResponsePhrases ==
    /\ pc = "load_phrases"
    /\ log' = ""
    /\ response_list' = load_response_phrases(response_phrases_txt)
    /\ pc' = "load_replied"
    /\ UNCHANGED <<direct, run, environment, replied_posts_txt, GEMINI_API_KEY,
                   available_proxies, proxy_cycle, reddit_instance,
                   session_proxy, replied_posts_set, cycle, observed, history>>

\* replied_posts_set = load_replied_posts(replied_posts_filename)
LoadRepliedPosts ==
    /\ pc = "load_replied"
    /\ log' = ""
    /\ \E read_error \in BOOLEAN :
           /\ replied_posts_set' =
                  load_replied_posts(replied_posts_txt, read_error)
           /\ io_ok' = (io_ok /\ ~read_error)
    /\ pc' = "start_cycle"
    /\ UNCHANGED <<direct, run, environment, replied_posts_txt, GEMINI_API_KEY,
                   available_proxies, proxy_cycle, reddit_instance,
                   session_proxy, response_list, cycle, observed,
                   gap_crashed>>

\* -------------------------------------------------------- run_reddit_agent
\* the text run_reddit_agent hands to generate_agent_response as prefix
full_llm_prompt(post) ==
    LlmPromptPrefix \o <<"\n\n">> \o <<"User post title: ">> \o post.title
        \o <<"\nUser post body: ">> \o post.selftext

\* the for loop over subreddits moves on: the next subreddit, or the end of
\* the cycle after the last one
NextSubreddit ==
    IF sub_idx < NumSubreddits
    THEN /\ sub_idx' = sub_idx + 1
         /\ pc' = "browse"
    ELSE /\ sub_idx' = sub_idx
         /\ pc' = "finished"

\* the body of the loop over the listing is done with this submission: the
\* loop variable is dead until the listing binds the next one
EndOfIteration ==
    /\ submission' = NoSubmission
    /\ pc' = "next"

\* current_proxy = get_next_proxy(), then the loop over subreddits begins
StartCycle ==
    /\ pc = "start_cycle"
    /\ log' = ""
    /\ reddit_instance # "None"
    /\ LET r == get_next_proxy(proxy_cycle)
       IN  /\ current_proxy' = r[1]
           /\ proxy_cycle' = r[2]
           /\ next_ret' = Append(next_ret, r[1])
    /\ sub_idx' = 1
    /\ pc' = "browse"
    /\ UNCHANGED <<direct, run, environment, replied_posts_txt, GEMINI_API_KEY,
                   available_proxies, reddit_instance, session_proxy,
                   response_list, replied_posts_set, fetched, submission,
                   agent_response, scanned, forum_errors, reply_raised,
                   reply_ok, cooldowns, save_failed, history>>

\* subreddit = reddit_instance.subreddit(subreddit_name) and the start of
\* the listing subreddit.new(limit=15); either may raise
BrowseSubreddit ==
    /\ pc = "browse"
    /\ log' = ""
    /\ scanned' = Append(scanned, sub_idx)
    /\ fetched' = 0
    /\ \E raises \in BOOLEAN : pc' = IF raises THEN "except" ELSE "next"
    /\ UNCHANGED <<direct, run, environment, replied_posts_txt, process,
                   current_proxy, sub_idx, submission, agent_response,
                   next_ret, forum_errors, reply_raised, reply_ok, cooldowns,
                   save_failed, history>>

\* the listing yields the next submission, ends, or raises
NextSubmission ==
    /\ pc = "next"
    /\ log' = ""
    /\ \/ /\ fetched < MaxNew
          /\ \E post \in Posts : submission' = post
          /\ fetched' = fetched + 1
          /\ pc' = "filter"
       \/ /\ pc' = "sleep"
          /\ UNCHANGED <<submission, fetched>>
       \/ /\ pc' = "except"
          /\ UNCHANGED <<submission, fetched>>
    /\ UNCHANGED <<direct, run, environment, replied_posts_txt, process,
                   current_proxy, sub_idx, agent_response, observed, history>>

\* if any(keyword in title or keyword in selftext for keyword in keywords)
Filter ==
    /\ pc = "filter"
    /\ log' = ""
    /\ IF is_relevant(submission.title, submission.selftext, keywords)
       THEN /\ pc' = "dedup"
            /\ UNCHANGED submission
       ELSE EndOfIteration
    /\ UNCHANGED <<direct, run, environment, replied_posts_txt, process,
                   current_proxy, sub_idx, fetched, agent_response, observed,
                   history>>

\* the loop body without the ledger check
DedupCheck_missing ==
    /\ pc = "dedup"
    /\ pc' = "generate"
    /\ log' = "DETECTED"
    /\ UNCHANGED <<direct, run, environment, replied_posts_txt, process, cycle,
                   observed, history>>

\* if submission.id not in replied_posts_set: ... else: [SKIPPED]
DedupCheck ==
    /\ pc = "dedup"
    /\ IF submission.id \notin replied_posts_set
       THEN /\ pc' = "generate"
            /\ log' = "DETECTED"
            /\ UNCHANGED submission
       ELSE /\ EndOfIteration
            /\ log' = "SKIPPED"
    /\ UNCHANGED <<direct, run, environment, replied_posts_txt, process,
                   current_proxy, sub_idx, fetched, agent_response, observed,
                   history>>

\* the generation step taking a new proxy for every post
Generate_per_post_proxy ==
    /\ pc = "generate"
    /\ log' = "RESPONSE"
    /\ LET r == get_next_proxy(proxy_cycle)
       IN  /\ current_proxy' = r[1]
           /\ proxy_cycle' = r[2]
           /\ next_ret' = Append(next_ret, r[1])
    /\ \E draw \in Draws(response_list), web_text \in WebTexts,
          completion \in LlmTexts :
           agent_response' =
               generate_agent_response(response_list, ExternalUrl,
                   DefaultSnippetLength, UseLlmForResponses,
                   full_llm_prompt(submission), GEMINI_API_KEY, draw,
                   web_text, completion)
    /\ pc' = "reply"
    /\ UNCHANGED <<direct, run, environment, replied_posts_txt,
                   GEMINI_API_KEY, available_proxies, reddit_instance,
                   session_proxy, response_list, replied_posts_set, sub_idx,
                   fetched, submission, scanned, forum_errors, reply_raised,
                   reply_ok, cooldowns, save_failed, history>>

\* agent_response = generate_agent_response(...), with the outcomes of the
\* phrase draw, the content fetch and the LLM call
Generate ==
    /\ pc = "generate"
    /\ log' = "RESPONSE"
    /\ \E draw \in Draws(response_list), web_text \in WebTexts,
          completion \in LlmTexts :
           agent_response' =
               generate_agent_response(response_list, ExternalUrl,
                   DefaultSnippetLength, UseLlmForResponses,
                   full_llm_prompt(submission), GEMINI_API_KEY, draw,
                   web_text, completion)
    /\ pc' = "reply"
    /\ UNCHANGED <<direct, run, environment, replied_posts_txt, process,
                   current_proxy, sub_idx, fetched, submission, observed,
                   history>>

\* submission.reply whose failure is recorded like a success
Reply_records_on_error ==
    /\ pc = "reply"
    /\ pc' = "add"
    /\ \E raises \in BOOLEAN :
           IF raises
           THEN /\ log' = "ERROR"
                /\ reply_raised' = reply_raised + 1
                /\ UNCHANGED reply_ok
           ELSE /\ log' = "ACTION"
                /\ reply_ok' = [reply_ok EXCEPT ![submission.id] = @ + 1]
                /\ UNCHANGED reply_raised
    /\ UNCHANGED <<direct, run, environment, replied_posts_txt, process, cycle,
                   next_ret, scanned, forum_errors, cooldowns, save_failed,
                   history>>

\* submission.reply without handlers of its own: the exception reaches the
\* handler around the subreddit
Reply_propagates ==
    /\ pc = "reply"
    /\ \E raises \in BOOLEAN :
           IF raises
           THEN /\ pc' = "except"
                /\ log' = "ERROR"
                /\ reply_raised' = reply_raised + 1
                /\ UNCHANGED reply_ok
           ELSE /\ pc' = "add"
                /\ log' = "ACTION"
                /\ reply_ok' = [reply_ok EXCEPT ![submission.id] = @ + 1]
                /\ UNCHANGED reply_raised
    /\ UNCHANGED <<direct, run, environment, replied_posts_txt, process, cycle,
                   next_ret, scanned, forum_errors, cooldowns, save_failed,
                   history>>

\* submission.reply with time.sleep(600) inside the try block: a failed
\* reply goes on to the next submission without the pause
Reply_no_pause_on_error ==
    /\ pc = "reply"
    /\ \E raises \in BOOLEAN :
           IF raises
           THEN /\ EndOfIteration
                /\ agent_response' = None
                /\ log' = "ERROR"
                /\ reply_raised' = reply_raised + 1
                /\ UNCHANGED reply_ok
           ELSE /\ pc' = "add"
                /\ log' = "ACTION"
                /\ reply_ok' = [reply_ok EXCEPT ![submission.id] = @ + 1]
                /\ UNCHANGED <<reply_raised, submission, agent_response>>
    /\ UNCHANGED <<direct, run, environment, replied_posts_txt, process,
                   current_proxy, sub_idx, fetched, next_ret, scanned,
                   forum_errors, cooldowns, save_failed, history>>

\* submission.reply(agent_response): returns, or raises and is caught by
\* the handlers around the reply
Reply ==
    /\ pc = "reply"
    /\ \E raises \in BOOLEAN :
           IF raises
           THEN /\ pc' = "cooldown"
                /\ log' = "ERROR"
                /\ reply_raised' = reply_raised + 1
                /\ UNCHANGED reply_ok
           ELSE /\ pc' = "add"
                /\ log' = "ACTION"
                /\ reply_ok' = [reply_ok EXCEPT ![submission.id] = @ + 1]
                /\ UNCHANGED reply_raised
    /\ UNCHANGED <<direct, run, environment, replied_posts_txt, process, cycle,
                   next_ret, scanned, forum_errors, cooldowns, save_failed,
                   history>>

\* the record without replied_posts_set.add: only the file is written
AddToSet_forgotten ==
    /\ pc = "add"
    /\ log' = log
    /\ pc' = "save"
    /\ UNCHANGED <<direct, run, environment, replied_posts_txt, process, cycle,
                   observed, history>>

\* replied_posts_set.add(submission.id)
AddToSet ==
    /\ pc = "add"
    /\ log' = log
    /\ replied_posts_set' = replied_posts_set \cup {submission.id}
    /\ pc' = "save"
    /\ UNCHANGED <<direct, run, environment, replied_posts_txt, GEMINI_API_KEY,
                   available_proxies, proxy_cycle, reddit_instance,
                   session_proxy, response_list, cycle, observed, history>>

\* save_replied_post(replied_posts_file, submission.id)
SaveRepliedPost ==
    /\ pc = "save"
    /\ \E write_error \in BOOLEAN :
           /\ replied_posts_txt' =
                  save_replied_post(replied_posts_txt, submission.id, write_error)
           /\ save_failed' = IF write_error
                             THEN save_failed \cup {submission.id}
                             ELSE save_failed
           /\ io_ok' = (io_ok /\ ~write_error)
           /\ log' = IF write_error THEN "SAVE_ERROR" ELSE "SAVED"
    /\ pc' = "cooldown"
    /\ UNCHANGED <<direct, run, environment, process, cycle, next_ret, scanned,
                   forum_errors, reply_raised, reply_ok, cooldowns,
                   gap_crashed>>

\* time.sleep(600), then the next submission of the listing
Cooldown ==
    /\ pc = "cooldown"
    /\ log' = ""
    /\ cooldowns' = cooldowns + 1
    /\ EndOfIteration
    /\ agent_response' = None
    /\ UNCHANGED <<direct, run, environment, replied_posts_txt, process,
                   current_proxy, sub_idx, fetched, next_ret, scanned,
                   forum_errors, reply_raised, reply_ok, save_failed, history>>

\* time.sleep(5) after the listing, then the next subreddit
InterSubredditSleep ==
    /\ pc = "sleep"
    /\ log' = ""
    /\ NextSubreddit
    /\ UNCHANGED <<direct, run, environment, replied_posts_txt, process,
                   current_proxy, fetched, submission, agent_response,
                   observed, history>>

\* the handler around one subreddit without the break on a missing proxy
ForumError_no_break ==
    /\ pc = "except"
    /\ log' = ""
    /\ forum_errors' = forum_errors + 1
    /\ LET r == get_next_proxy(proxy_cycle)
       IN  /\ current_proxy' = r[1]
           /\ proxy_cycle' = r[2]
           /\ next_ret' = Append(next_ret, r[1])
    /\ NextSubreddit
    /\ UNCHANGED <<direct, run, environment, replied_posts_txt, GEMINI_API_KEY,
                   available_proxies, reddit_instance, session_proxy,
                   response_list, replied_posts_set, fetched, submission,
                   agent_response, scanned, reply_raised, reply_ok, cooldowns,
                   save_failed, history>>

\* the handler around one subreddit trying the failed subreddit again with
\* the next proxy
ForumError_retrying ==
    /\ pc = "except"
    /\ log' = ""
    /\ forum_errors' = forum_errors
    /\ LET r == get_next_proxy(proxy_cycle)
       IN  /\ current_proxy' = r[1]
           /\ proxy_cycle' = r[2]
           /\ next_ret' = next_ret
           /\ IF ~Truthy(r[1])
              THEN pc' = "finished"
              ELSE pc' = "browse"
    /\ sub_idx' = sub_idx
    /\ UNCHANGED <<direct, run, environment, replied_posts_txt, GEMINI_API_KEY,
                   available_proxies, reddit_instance, session_proxy,
                   response_list, replied_posts_set, fetched, submission,
                   agent_response, scanned, reply_raised, reply_ok, cooldowns,
                   save_failed, history>>

\* except Exception around one subreddit: switch proxy, stop the cycle when
\* there is none
ForumError ==
    /\ pc = "except"
    /\ log' = ""
    /\ forum_errors' = forum_errors + 1
    /\ LET r == get_next_proxy(proxy_cycle)
       IN  /\ current_proxy' = r[1]
           /\ proxy_cycle' = r[2]
           /\ next_ret' = Append(next_ret, r[1])
           /\ IF ~Truthy(r[1])
              THEN /\ pc' = "finished"
                   /\ sub_idx' = sub_idx
              ELSE NextSubreddit
    /\ UNCHANGED <<direct, run, environment, replied_posts_txt, GEMINI_API_KEY,
                   available_proxies, reddit_instance, session_proxy,
                   response_list, replied_posts_set, fetched, submission,
                   agent_response, scanned, reply_raised, reply_ok, cooldowns,
                   save_failed, history>>

\* "--- Reddit Agent Cycle Finished ---", and the process ends
FinishCycle ==
    /\ pc = "finished"
    /\ log' = ""
    /\ pc' = "exit"
    /\ UNCHANGED <<direct, run, environment, replied_posts_txt, process, cycle,
                   observed, history>>

Next ==
    \/ ImportModule
    \/ LoadProxies
    \/ InitializeReddit
    \/ ConfigureRedditProxy
    \/ LoadResponsePhrases
    \/ LoadRepliedPosts
    \/ StartCycle
    \/ BrowseSubreddit
    \/ NextSubmission
    \/ Filter
    \/ DedupCheck
    \/ Generate
    \/ Reply
    \/ AddToSet
    \/ SaveRepliedPost
    \/ Cooldown
    \/ InterSubredditSleep
    \/ ForumError
    \/ FinishCycle

\* one process lifetime, from the start of the script to its end
Spec == Init /\ [][Next]_vars

\* the script started with or without proxies, with the phrase file, the
\* API key and either ledger file
InitCycle ==
    /\ Init
    /\ proxies_txt \in { NoFile, << <<"#", "2">>, P1 >> }
    /\ response_phrases_txt = <<Hi, <<" ">> >>
    /\ environ_key = Key
    /\ keywords = << <<"a", "b">> >>

\* one process lifetime in which the process goes on as long as it has a
\* next statement: it has one thread, its sleeps are of fixed length, and
\* every call it makes returns or raises
SpecCycle == InitCycle /\ [][Next]_vars /\ WF_vars(Next)

\* ------------------------------------------------------ process lifetimes
\* the memory of the process is gone
MemoryLost ==
    /\ GEMINI_API_KEY' = None
    /\ available_proxies' = <<>>
    /\ proxy_cycle' = NoCycle
    /\ reddit_instance' = "None"
    /\ session_proxy' = None
    /\ response_list' = <<>>
    /\ replied_posts_set' = {}
    /\ current_proxy' = None
    /\ sub_idx' = 0
    /\ fetched' = 0
    /\ submission' = NoSubmission
    /\ agent_response' = None
    /\ next_ret' = <<>>
    /\ scanned' = <<>>
    /\ forum_errors' = 0
    /\ reply_raised' = 0
    /\ reply_ok' = Zero
    /\ cooldowns' = 0
    /\ save_failed' = {}
    /\ log' = ""

\* the process dies at any point: its memory is lost, the files stay
Crash ==
    /\ pc \notin {"exit", "dead"}
    /\ pc' = "dead"
    /\ gap_crashed' = IF pc \in {"add", "save"}
                      THEN gap_crashed \cup {submission.id}
                      ELSE gap_crashed
    /\ MemoryLost
    /\ UNCHANGED <<direct, run, environment, replied_posts_txt, io_ok>>

\* the script is started again: a fresh process over the same files
Restart ==
    /\ pc \in {"exit", "dead"}
    /\ run < MaxRuns
    /\ run' = run + 1
    /\ pc' = "import"
    /\ MemoryLost
    /\ UNCHANGED <<direct, environment, replied_posts_txt, history>>

\* the first start of the script with one proxy, the phrase file, the API
\* key and no ledger file yet
InitRestart ==
    /\ Init
    /\ proxies_txt = << <<"#", "2">>, P1 >>
    /\ response_phrases_txt = <<Hi, <<" ">> >>
    /\ environ_key = Key
    /\ replied_posts_txt = NoFile
    /\ keywords = << <<"a", "b">> >>

NextRestart == Next \/ Crash \/ Restart

\* successive process lifetimes over the same ledger file
SpecRestart == InitRestart /\ [][NextRestart]_vars

\* ------------------------------------------------- the ledger on its own
\* ids handed to the ledger: submission ids, an id with a trailing blank and
\* the empty id
LedgerIds == Ids \cup { <<"p", " ">>, <<>> }

\* the ledger before anything is recorded: no file, or an empty one
InitLedger ==
    /\ pc = "ledger"
    /\ run = 1
    /\ proxies_txt = NoFile
    /\ response_phrases_txt = NoFile
    /\ environ_key = None
    /\ keywords = << <<"a", "b">> >>
    /\ replied_posts_txt \in {NoFile, <<>>}
    /\ FreshMemory
    /\ io_ok = TRUE
    /\ gap_crashed = {}
    /\ NoDirectCalls

\* record(id): replied_posts_set.add(id), then save_replied_post(file, id)
RecordId ==
    /\ pc = "ledger"
    /\ Len(recorded) < MaxRecords
    /\ \E id \in LedgerIds, write_error \in BOOLEAN :
           /\ replied_posts_set' = replied_posts_set \cup {id}
           /\ replied_posts_txt' =
                  save_replied_post(replied_posts_txt, id, write_error)
           /\ recorded' = Append(recorded, id)
           /\ io_ok' = (io_ok /\ ~write_error)
    /\ UNCHANGED <<pc, run, environment, GEMINI_API_KEY, available_proxies,
                   proxy_cycle, reddit_instance, session_proxy, response_list,
                   cycle, observed, log, gap_crashed, call>>

\* a fresh load: load_replied_posts(file) replaces the in-memory set
FreshLoad ==
    /\ pc = "ledger"
    /\ \E read_error \in BOOLEAN :
           /\ replied_posts_set' =
                  load_replied_posts(replied_posts_txt, read_error)
           /\ io_ok' = (io_ok /\ ~read_error)
    /\ pc' = "loaded"
    /\ UNCHANGED <<run, environment, replied_posts_txt, GEMINI_API_KEY,
                   available_proxies, proxy_cycle, reddit_instance,
                   session_proxy, response_list, cycle, observed, log,
                   gap_crashed, direct>>

NextLedger == RecordId \/ FreshLoad

\* ids recorded one after the other, then a fresh load from the file
SpecLedger == InitLedger /\ [][NextLedger]_vars

\* ---------------------------------------------- the generator on its own
\* contents of response_phrases.txt: missing, one phrase, two phrases
Yo == <<"Y", "o">>
GeneratorPhraseFiles == { NoFile, <<Hi, <<" ">> >>, <<Hi, <<" ", "Y", "o">> >> }

\* the credential in the environment: unset, empty, set
GeneratorApiKeys == ApiKeys \cup { <<>> }

\* url: None (the default), "", the configured address
Urls == { None, <<>>, ExternalUrl }

\* snippet_length: shorter than the fetched texts, and the default
SnippetLengths == { 2, DefaultSnippetLength }

\* llm_prompt_prefix: "" (the default) and the configured one
PromptPrefixes == { <<>>, LlmPromptPrefix }

\* what get_web_content hands back: None on a failure, or the page's text
GeneratorWebTexts == WebTexts \cup { <<"w", " ", "e", "b">>, <<"w", "e">> }

\* the phrases and the credential are loaded, nothing is generated yet
InitGenerate ==
    /\ pc = "call"
    /\ run = 1
    /\ proxies_txt = NoFile
    /\ response_phrases_txt \in GeneratorPhraseFiles
    /\ environ_key \in GeneratorApiKeys
    /\ keywords = << <<"a", "b">> >>
    /\ replied_posts_txt = NoFile
    /\ GEMINI_API_KEY = environ_key
    /\ available_proxies = <<>>
    /\ proxy_cycle = NoCycle
    /\ reddit_instance = "None"
    /\ session_proxy = None
    /\ response_list = load_response_phrases(response_phrases_txt)
    /\ replied_posts_set = {}
    /\ current_proxy = None
    /\ sub_idx = 0
    /\ fetched = 0
    /\ submission = NoSubmission
    /\ agent_response = None
    /\ next_ret = <<>>
    /\ scanned = <<>>
    /\ forum_errors = 0
    /\ reply_raised = 0
    /\ reply_ok = Zero
    /\ cooldowns = 0
    /\ save_failed = {}
    /\ log = ""
    /\ io_ok = TRUE
    /\ gap_crashed = {}
    /\ NoDirectCalls

\* agent_response = generate_agent_response(response_list, url,
\* snippet_length, proxy, use_llm, llm_prompt_prefix) with any arguments and
\* any outcome of the phrase draw, the content fetch and the LLM call
CallGenerate ==
    /\ pc = "call"
    /\ \E url \in Urls, snippet_length \in SnippetLengths,
          use_llm \in BOOLEAN, llm_prompt_prefix \in PromptPrefixes,
          draw \in Draws(response_list), web_text \in GeneratorWebTexts,
          completion \in LlmTexts :
           /\ call' = [response_phrases |-> response_list, url |-> url,
                       snippet_length |-> snippet_length, use_llm |-> use_llm,
                       llm_prompt_prefix |-> llm_prompt_prefix, draw |-> draw,
                       web_text |-> web_text, completion |-> completion]
           /\ agent_response' =
                  generate_agent_response(response_list, url, snippet_length,
                      use_llm, llm_prompt_prefix, GEMINI_API_KEY, draw,
                      web_text, completion)
    /\ pc' = "returned"
    /\ UNCHANGED <<run, environment, replied_posts_txt, process,
                   current_proxy, sub_idx, fetched, submission, observed,
                   log, history, recorded>>

NextGenerate == CallGenerate

\* one call of generate_agent_response
SpecGenerate == InitGenerate /\ [][NextGenerate]_vars

\* ------------------------------------------------------------- properties
\* the lines of the ledger file
FileLines == IF replied_posts_txt = NoFile THEN {} ELSE Range(replied_posts_txt)

\* the ids recorded on the ledger file
FileIds == {Strip(l) : l \in FileLines} \ {<<>>}

\* the reply to p has returned and its record is not complete yet
InGap(p) == pc \in {"add", "save"} /\ submission.id = p

\* replies that returned in this cycle
RepliesOk == reply_ok[<<"p">>] + reply_ok[<<"q">>]

\* the cycle of this process is over
CycleOver == pc \in {"finished", "exit"} /\ reddit_instance # "None"

\* C1: a post whose id is in the in-memory ledger set when it is examined
\* gets no response generated and no call of reply: generation and
\* submission are only ever reached with an id outside the set, and the
\* step that logs [SKIPPED] goes straight on to the next submission.
C1_NoReplyToLedgerPost ==
    /\ pc \in {"generate", "reply"} => submission.id \notin replied_posts_set
    /\ log = "SKIPPED" => pc = "next" /\ agent_response = None

\* C1 witness: a post that was answered is met again and skipped
C1_Witness ==
    /\ log = "SKIPPED"
    /\ pc = "next"
    /\ replied_posts_set # {}

\* C2 as claimed: once a reply to a post has returned and its record is
\* done, the post was answered exactly once in the cycle, its id is in the
\* in-memory set and the ledger file has a line equal to the id.
C2_RecordedAfterReply ==
    \A p \in Ids :
        (reply_ok[p] >= 1 /\ ~InGap(p)) =>
            /\ reply_ok[p] = 1
            /\ p \in replied_posts_set
            /\ p \in FileLines

\* C2 amended: as claimed, with the line on the ledger file only when the
\* append did not fail.
C2_RecordedUnlessWriteFailed ==
    \A p \in Ids :
        (reply_ok[p] >= 1 /\ ~InGap(p)) =>
            /\ reply_ok[p] = 1
            /\ p \in replied_posts_set
            /\ (p \notin save_failed => p \in FileLines)

\* C2 witness: both posts answered and recorded in one cycle, every append
\* having succeeded
C2_Witness ==
    /\ pc = "cooldown"
    /\ log = "SAVED"
    /\ save_failed = {}
    /\ \A p \in Ids : reply_ok[p] = 1 /\ p \in FileLines

\* C3: a reply that raises leaves the in-memory set and the ledger file as
\* they were, with the id outside the set; and ids enter the set only from
\* the file or after a reply that returned, and enter the file only after a
\* reply that returned, so the post passes the ledger check again in this
\* and in the next cycle.
C3_FailedReplyNotRecorded ==
    [][ /\ (reply_raised' = reply_raised + 1) =>
               /\ replied_posts_set' = replied_posts_set
               /\ replied_posts_txt' = replied_posts_txt
               /\ submission.id \notin replied_posts_set'
        /\ (replied_posts_set' # replied_posts_set) =>
               replied_posts_set' \subseteq
                   replied_posts_set \cup FileIds
                       \cup {p \in Ids : reply_ok[p] >= 1}
        /\ (replied_posts_txt' # replied_posts_txt) =>
               FileIds' \subseteq FileIds \cup {p \in Ids : reply_ok[p] >= 1}
      ]_vars

\* C3 witness: in a later run a reply has just raised for a post that is
\* neither in the set nor on the file
C3_Witness ==
    /\ run >= 2
    /\ pc = "cooldown"
    /\ log = "ERROR"
    /\ submission.id \notin replied_posts_set
    /\ submission.id \notin FileIds

\* C4 as claimed: a reply that raises puts the process into the handler
\* around the subreddit (which drops the rest of the listing and advances
\* the proxy rotator).
C4_ReplyErrorFailsOver == log = "ERROR" => pc = "except"

\* the submissions of a subreddit are being processed
InListing ==
    pc \in {"next", "filter", "dedup", "generate", "reply", "add", "save",
            "cooldown", "sleep"}

\* calls of get_next_proxy made before the cycle
CallsBeforeCycle == IF available_proxies # <<>> THEN 1 ELSE 0

\* C4 amended: an exception while scanning a subreddit ends that subreddit
\* and advances the rotator once (the rotator has been advanced once per
\* cycle start and once per handled exception, and every handled exception
\* belongs to a subreddit that is not processed any further); a reply that
\* raises stays inside the listing and goes on to the pause.
C4_ScanErrorFailsOver ==
    /\ sub_idx >= 1 =>
           /\ Len(next_ret) = CallsBeforeCycle + 1 + forum_errors
           /\ forum_errors <= Len(scanned) - (IF InListing \/ pc = "except"
                                              THEN 1 ELSE 0)
           /\ (pc = "browse" /\ forum_errors >= 1) => Truthy(current_proxy)
    /\ log = "ERROR" => pc = "cooldown"

\* C4 witness: a reply has raised and an earlier subreddit has failed
C4_Witness ==
    /\ log = "ERROR"
    /\ forum_errors = 1
    /\ sub_idx = 2

\* C5: the subreddits are browsed in the configured order, each once; with
\* a non-empty proxy pool the cycle ends only after all of them, whatever
\* failed, and a cycle that ends early ends with no proxy.
C5_AllForumsScanned ==
    /\ \A i \in DOMAIN scanned : scanned[i] = i
    /\ (CycleOver /\ available_proxies # <<>>) => Len(scanned) = NumSubreddits
    /\ (CycleOver /\ Len(scanned) < NumSubreddits) => ~Truthy(current_proxy)

\* C5 witness: every subreddit has failed and the cycle has still browsed
\* all of them
C5_Witness ==
    /\ pc = "finished"
    /\ available_proxies # <<>>
    /\ forum_errors = NumSubreddits
    /\ Len(scanned) = NumSubreddits

\* C6: with an empty proxy pool every call of get_next_proxy returns None,
\* and after the first exception around a subreddit the cycle is over: the
\* failing subreddit is the last one browsed.
C6_EmptyPoolAborts ==
    available_proxies = <<>> =>
        /\ \A i \in DOMAIN next_ret : next_ret[i] = None
        /\ forum_errors <= 1
        /\ forum_errors = 1 =>
               /\ pc \in {"finished", "exit"}
               /\ Len(scanned) = sub_idx

\* C6 witness: the first subreddit failed without proxies and the cycle
\* ended with subreddits left
C6_Witness ==
    /\ available_proxies = <<>>
    /\ forum_errors = 1
    /\ pc = "finished"
    /\ Len(scanned) < NumSubreddits
    /\ cooldowns >= 1

\* C7: while ledger reads and writes succeed, a run replies to a post at
\* most once, and generation and submission are only reached, and a reply
\* has only just returned, for an id that is not on the ledger file: an id
\* on the file is never answered again, and an answer lost by a crash
\* before its record costs one more reply in the next run.
C7_AtMostOneDuplicate ==
    io_ok =>
        /\ \A p \in Ids : reply_ok[p] <= 1
        /\ pc \in {"generate", "reply", "add", "save"} =>
               submission.id \notin FileIds

\* C7 witness: a post whose record was cut off by a crash has been answered
\* once more and recorded in the next run
C7_Witness ==
    /\ run >= 2
    /\ io_ok
    /\ \E p \in gap_crashed :
           /\ reply_ok[p] = 1
           /\ p \in FileIds
           /\ log = "SKIPPED"

\* C8 as claimed: at the end of the cycle the pauses of 600 s are as many
\* as the replies that returned.
C8_CooldownPerSuccess == pc = "finished" => cooldowns = RepliesOk

\* C8 amended: the pause follows every call of reply, returned or raised:
\* the pauses are as many as the calls, less the one still to be taken.
C8_CooldownPerAttempt ==
    cooldowns = RepliesOk + reply_raised
                    - (IF pc \in {"add", "save", "cooldown"} THEN 1 ELSE 0)

\* C8 witness: a cycle ends after a reply that returned, a reply that raised
\* and a skipped post
C8_Witness ==
    /\ pc = "finished"
    /\ RepliesOk = 1
    /\ reply_raised = 1
    /\ cooldowns = 2

\* some keyword is a case-insensitive substring of the title or the body
CaseInsensitiveMatch(title, selftext, kws) ==
    \E i \in DOMAIN kws :
        \/ IsSubstring(Lower(kws[i]), Lower(title))
        \/ IsSubstring(Lower(kws[i]), Lower(selftext))

\* C9 as claimed: the filter lets a submission through to the ledger check
\* exactly when some keyword is a case-insensitive substring of its title
\* or its body.
C9_CaseInsensitiveRelevance ==
    [][ pc = "filter" =>
            ((pc' = "dedup") <=>
                 CaseInsensitiveMatch(submission.title, submission.selftext,
                                      keywords)) ]_vars

\* C10: the i-th value get_next_proxy returns in a process is element
\* i mod K of the pool of size K, never None, and None when the pool is
\* empty.
C10_RoundRobin ==
    LET K == Len(available_proxies)
    IN  \A i \in DOMAIN next_ret :
            IF K = 0 THEN next_ret[i] = None
            ELSE /\ next_ret[i] = available_proxies[((i - 1) % K) + 1]
                 /\ next_ret[i] # None

\* C10 witness: a pool of two proxies has been handed out twice over
C10_Witness ==
    /\ Len(available_proxies) = 2
    /\ Len(next_ret) >= 4

\* an id as the forum hands it out: not empty and without whitespace
CleanId(id) == id # <<>> /\ " " \notin Range(id)

\* C11: from a missing or empty ledger file, after ids that are not empty
\* and hold no whitespace have been recorded without a failed write, a fresh
\* load from the file gives exactly the set of the recorded ids.
C11_LedgerRoundTrip ==
    (pc = "loaded" /\ io_ok /\ \A i \in DOMAIN recorded : CleanId(recorded[i]))
        => replied_posts_set = Range(recorded)

\* C11 witness: as many distinct ids as the ledger takes were recorded and
\* loaded again
C11_Witness ==
    /\ pc = "loaded"
    /\ io_ok
    /\ replied_posts_set = Ids
    /\ Range(recorded) = Ids
    /\ Len(recorded) = Cardinality(Ids)

\* C12: recording never fails and leaves every recorded id in the in-memory
\* set; the file gets one line per successful call, repeated ids included;
\* and a fresh load gives the set of the ids recorded, however often each
\* was recorded.
C12_RecordIdempotent ==
    /\ pc = "ledger" => Range(recorded) \subseteq replied_posts_set
    /\ (io_ok /\ recorded # <<>>) =>
           /\ replied_posts_txt # NoFile
           /\ Len(replied_posts_txt) = Len(recorded)
    /\ (pc = "loaded" /\ io_ok) =>
           replied_posts_set = {Strip(id) : id \in Range(recorded)} \ {<<>>}

\* C12 witness: the same id was recorded twice and loaded again: two lines,
\* one member
C12_Witness ==
    /\ pc = "loaded"
    /\ io_ok
    /\ recorded = << <<"q">>, <<"q">> >>
    /\ replied_posts_txt = << <<"q">>, <<"q">> >>
    /\ replied_posts_set = { <<"q">> }

\* the template-only strategy: the phrase the draw picks, or the fixed
\* literal when there is no phrase
TemplateOnly(phrases, draw) ==
    IF phrases # <<>> THEN phrases[draw] ELSE <<"Hello there!">>

\* C13: whatever the phrase list, the url, the mode, the prompt prefix, the
\* outcome of the fetch and of the LLM call and the credential are, the
\* generator returns a text (it has no outcome that is an exception) and
\* the text is not empty.
C13_GeneratorTotal ==
    pc = "returned" =>
        /\ agent_response # None
        /\ agent_response # <<>>
        /\ Len(agent_response) >= 1

\* C13 witness: LLM mode with no phrases, no credential, a failed fetch and
\* a failed LLM call still gives the literal
C13_Witness ==
    /\ pc = "returned"
    /\ call.use_llm
    /\ call.response_phrases = <<>>
    /\ GEMINI_API_KEY = None
    /\ call.web_text = None
    /\ call.completion = None
    /\ agent_response = <<"Hello there!">>

LlmSucceeds ==
    /\ \/ call.llm_prompt_prefix # <<>>
       \/ (call.url = ExternalUrl
             /\ call.web_text # None /\ call.web_text # <<>>)
    /\ GEMINI_API_KEY # None /\ GEMINI_API_KEY # <<>>
    /\ call.completion # None /\ call.completion # <<>>

\* C15: in LLM mode the response is the text of the LLM as it is when the
\* call succeeds, and the response of the template-only strategy when the
\* call fails, gives nothing, or the credential is missing.
C15_LlmOrTemplate ==
    (pc = "returned" /\ call.use_llm) =>
        IF LlmSucceeds
        THEN agent_response = call.completion
        ELSE agent_response = TemplateOnly(call.response_phrases, call.draw)

\* C15 witness: the credential is missing, the LLM would have answered, and
\* the response is the drawn phrase
C15_Witness ==
    /\ pc = "returned"
    /\ call.use_llm
    /\ call.llm_prompt_prefix # <<>>
    /\ GEMINI_API_KEY = None
    /\ call.completion = <<"l", "l", "m">>
    /\ call.draw = 2
    /\ agent_response = Yo

\* C16: without LLM and without url the response is the fixed literal when
\* the phrase list is empty, and the drawn element of the list otherwise.
C16_TemplateOnlyMode ==
    (/\ pc = "returned"
     /\ ~call.use_llm
     /\ call.url \in {None, <<>>})
        => IF call.response_phrases = <<>>
           THEN agent_response = <<"Hello there!">>
           ELSE /\ agent_response \in Range(call.response_phrases)
                /\ agent_response = call.response_phrases[call.draw]

\* C16 witness: no phrase file, no url, no LLM: the literal
C16_Witness ==
    /\ pc = "returned"
    /\ ~call.use_llm
    /\ call.url = None
    /\ call.response_phrases = <<>>
    /\ response_phrases_txt = NoFile
    /\ agent_response = <<"Hello there!">>

\* C17 as claimed: in every state of a run every id of the in-memory set is
\* a line of the ledger file.
C17_SetWithinFile == replied_posts_set \subseteq FileLines

\* C17 amended: the insertion into the set comes first and the append
\* second: when the append starts the id is in the set already, and every
\* id of the set is on the file except the one whose append is still to be
\* made and those whose append failed.
C17_SetWithinFileOnceSaved ==
    /\ pc = "save" => submission.id \in replied_posts_set
    /\ replied_posts_set \subseteq
           FileIds \cup save_failed
               \cup (IF pc = "save" THEN {submission.id} ELSE {})

\* C17 witness: at the end of a cycle one answered post is in the set and
\* on the file, another is in the set only, its append having failed
C17_Witness ==
    /\ pc = "finished"
    /\ replied_posts_set = Ids
    /\ Cardinality(FileIds) = 1
    /\ Cardinality(save_failed \ FileIds) = 1

\* C18 as claimed: the rotator has been advanced once for the start of the
\* cycle and once per handled exception around a subreddit, and by nothing
\* else.
C18_TwoTriggersOnly == sub_idx >= 1 => Len(next_ret) = 1 + forum_errors

\* C18 amended: the rotator is advanced once at start-up when the session of
\* the client is bound to a proxy, once at the start of the cycle and once
\* per handled exception around a subreddit, and by nothing else; the
\* current proxy is the value of the last of these calls, whatever was
\* scanned, filtered, checked, generated, submitted or recorded since.
C18_ThreeTriggers ==
    /\ Len(next_ret) = (IF session_proxy # None THEN 1 ELSE 0)
                           + (IF sub_idx >= 1 THEN 1 + forum_errors ELSE 0)
    /\ sub_idx >= 1 => current_proxy = next_ret[Len(next_ret)]
    /\ sub_idx = 0 => current_proxy = None
    /\ proxy_cycle # NoCycle =>
           proxy_cycle.pos = (Len(next_ret) % Len(available_proxies)) + 1

\* C18 witness: after one failover a post of the next subreddit is about to
\* be answered with the proxy the failover gave
C18_Witness ==
    /\ pc = "reply"
    /\ forum_errors = 1
    /\ Len(available_proxies) = 2
    /\ Len(next_ret) = 3
    /\ current_proxy = available_proxies[1]

\* C19 as claimed: during a cycle with a non-empty pool the proxy of the
\* session of the Reddit client is the current proxy, which is handed to
\* the content fetch.
C19_SessionProxyIsCurrent ==
    (sub_idx >= 1 /\ available_proxies # <<>> /\ pc \notin {"finished", "exit"})
        => session_proxy = current_proxy

\* C20: in a cycle submission.reply returns at most once per id, and is not
\* called for an id it has returned for, however often the listings yield
\* the id and whether or not the append to the ledger file failed.
C20_OneReplyPerIdPerCycle ==
    /\ \A p \in Ids : reply_ok[p] <= 1
    /\ pc \in {"generate", "reply"} => reply_ok[submission.id] = 0

\* C20 witness: a post whose append failed, so that there is still no
\* ledger file, came up again and was skipped
C20_Witness ==
    /\ log = "SKIPPED"
    /\ replied_posts_txt = NoFile
    /\ \E p \in save_failed : reply_ok[p] = 1

\* C21: the load of the ledger always returns and the process goes on to
\* the cycle: with the empty set when the file is missing or reading it
\* failed, with the ids of the file otherwise; and the ledger check lets
\* every id outside the set through to generation, whether or not an
\* earlier run put it on the file.
C21_FailOpenLoad ==
    [][ /\ pc = "load_replied" =>
               /\ pc' = "start_cycle"
               /\ replied_posts_txt' = replied_posts_txt
               /\ replied_posts_set' =
                      IF replied_posts_txt = NoFile \/ (io_ok /\ ~io_ok')
                      THEN {} ELSE FileIds
        /\ (pc = "dedup" /\ submission.id \notin replied_posts_set) =>
               /\ pc' = "generate"
               /\ log' = "DETECTED"
      ]_vars

\* C21 witness: the file of an earlier run names a post, reading it failed,
\* and the post has been answered again
C21_Witness ==
    /\ pc = "add"
    /\ log = "ACTION"
    /\ ~io_ok
    /\ save_failed = {}
    /\ submission.id \in FileIds
    /\ reply_ok[submission.id] = 1

\* the response of the template branch around a snippet
WithSnippet(phrase, snippet, url) ==
    phrase \o <<"\n\nHere's something I found: \"">> \o snippet
        \o <<"\"\n\n(Source: ">> \o url \o <<")">>

\* C22: in template mode with a url and a fetched text, the snippet is the
\* whole text and no ellipsis when the text has at most snippet_length
\* characters; otherwise it is the first snippet_length characters of the
\* text, less the whitespace at their ends, followed by the ellipsis: never
\* more than snippet_length characters of the text.
C22_SnippetTruncation ==
    (/\ pc = "returned"
     /\ ~call.use_llm
     /\ call.url = ExternalUrl
     /\ call.web_text # None /\ call.web_text # <<>>)
        => LET t == call.web_text
               n == call.snippet_length
               phrase == TemplateOnly(call.response_phrases, call.draw)
               cut == Strip(SubSeq(t, 1, n))
           IN  IF Len(t) <= n
               THEN agent_response = WithSnippet(phrase, t, call.url)
               ELSE /\ agent_response =
                          WithSnippet(phrase, cut \o <<"...">>, call.url)
                    /\ Len(cut) <= n
                    /\ cut = SubSeq(t, 1, Len(cut))

\* C22 witness: a text of four characters cut to two, of which the blank
\* goes, with the ellipsis
C22_Witness ==
    /\ pc = "returned"
    /\ ~call.use_llm
    /\ call.web_text = <<"w", " ", "e", "b">>
    /\ call.snippet_length = 2
    /\ call.response_phrases = <<>>
    /\ agent_response =
           <<"Hello there!", "\n\nHere's something I found: \"", "w", "...",
             "\"\n\n(Source: ", "https://playhouse-ai.world/", ")">>

\* C23: whatever fails, the process reaches the end of the cycle and ends,
\* and on the way each subreddit is browsed at most once, in the order of
\* the list.
C23_CycleTerminates ==
    /\ [](/\ Len(scanned) <= NumSubreddits
          /\ \A i \in DOMAIN scanned : scanned[i] = i)
    /\ <>(pc = "exit")

\* C23 witness: the cycle is over after a subreddit that failed, a reply
\* that raised and an append that failed, every subreddit browsed once
C23_Witness ==
    /\ pc = "exit"
    /\ forum_errors >= 1
    /\ reply_raised >= 1
    /\ save_failed # {}
    /\ Len(scanned) = NumSubreddits
====
